---- MODULE Spec2Model ----
(***************************************************************************)
(* A model of src/git_utils.py: the path-prefix normalizer, the commit     *)
(* hash resolver, the commit-list loader, the description cache, the       *)
(* ancestor cache, the history attribution engine and the three scans of   *)
(* the log stream parser.                                                  *)
(*                                                                         *)
(* Python strings are modelled as sequences of one-character strings, so   *)
(* that strip(), lower(), startswith() and pathlib's normalisation are     *)
(* computed rather than assumed.  An optional value (str | None) is the    *)
(* record [some, v].                                                       *)
(***************************************************************************)
EXTENDS Integers, Sequences, FiniteSets, TLC

VARIABLES
    \* normalize_git_path, applied to one (log_path, path_prefix_str) pair
    log_path, path_prefix_str, norm_pc, norm_result,
    \* load_commit_list, applied to one commit-list file
    commit_file, load_pc, load_result,
    \* resolve_commit_hashes, applied to one set of refs against one repository
    commit_refs, rev_parse, resolve_pc, resolved_commits, resolved_again,
    \* get_file_description, called again and again on one RepoMetadata
    description_cache, repo_is_git, log_queries, desc_calls, first_result,
    last_path, last_result, last_query,
    \* is_commit_ancestor, called again and again with one cache
    ancestor_cache, initial_ancestor_cache, merge_base_runs, ancestor_calls,
    first_is_ancestor, last_ancestor_call,
    \* collect_git_history_info_with_ignored_modification_commits, called once
    \* on one repository
    repo_commits, repo_prefix, hist_pc, ignored_modification_commits,
    resolved_ignored_modification_commits, history_path_prefix,
    file_commit_timestamps, history_info, vcs_calls, work_tree_check,
    log_returncodes,
    \* the three scans of the log stream parser, each applied to one stream
    scan_commits, scan_prefix, stray_lines, scan_pc, scan_returncode,
    scan_resolved, scanned_timestamps, scanned_statuses, recent_descriptions

norm_vars == <<log_path, path_prefix_str, norm_pc, norm_result>>

load_vars == <<commit_file, load_pc, load_result>>

resolve_vars == <<commit_refs, rev_parse, resolve_pc, resolved_commits, resolved_again>>

desc_vars == <<description_cache, repo_is_git, log_queries, desc_calls,
               first_result, last_path, last_result, last_query>>

anc_vars == <<ancestor_cache, initial_ancestor_cache, merge_base_runs, ancestor_calls,
              first_is_ancestor, last_ancestor_call>>

hist_vars == <<repo_commits, repo_prefix, hist_pc, ignored_modification_commits,
               resolved_ignored_modification_commits, history_path_prefix,
               file_commit_timestamps, history_info, vcs_calls, work_tree_check,
               log_returncodes>>

scan_vars == <<scan_commits, scan_prefix, stray_lines, scan_pc, scan_returncode,
               scan_resolved, scanned_timestamps, scanned_statuses, recent_descriptions>>

vars == <<norm_vars, load_vars, resolve_vars, desc_vars, anc_vars, hist_vars, scan_vars>>

(***************************************************************************)
(* Strings                                                                 *)
(***************************************************************************)

None == [some |-> FALSE, v |-> <<>>]

Some(s) == [some |-> TRUE, v |-> s]

\* Python truthiness of a str | None: None and "" are both falsy.
Truthy(o) == o.some /\ o.v # <<>>

\* str.isspace() on one character.
IsSpace(ch) == ch \in {" ", "\t", "\n", "\r"}

\* str.lower() on one character (the upper-case letters the inputs use).
LowerChar(ch) ==
    CASE ch = "A" -> "a"
      [] ch = "B" -> "b"
      [] ch = "C" -> "c"
      [] ch = "D" -> "d"
      [] ch = "E" -> "e"
      [] ch = "F" -> "f"
      [] ch = "H" -> "h"
      [] ch = "T" -> "t"
      [] OTHER -> ch

\* str.lower()
Lower(s) == [i \in 1..Len(s) |-> LowerChar(s[i])]

RECURSIVE LStrip(_)
LStrip(s) ==
    IF s = <<>> THEN s
    ELSE IF IsSpace(Head(s)) THEN LStrip(Tail(s)) ELSE s

RECURSIVE RStrip(_)
RStrip(s) ==
    IF s = <<>> THEN s
    ELSE IF IsSpace(s[Len(s)]) THEN RStrip(SubSeq(s, 1, Len(s) - 1)) ELSE s

\* str.strip()
Strip(s) == RStrip(LStrip(s))

\* str.startswith()
StartsWith(s, p) == Len(p) <= Len(s) /\ SubSeq(s, 1, Len(p)) = p

\* All strings over an alphabet, up to a length.
StringsUpTo(alphabet, n) == UNION {[1..k -> alphabet] : k \in 0..n}

(***************************************************************************)
(* pathlib: Path(s).as_posix() on a POSIX host                             *)
(***************************************************************************)

\* s split at every "/" (str.split("/")): a list of possibly empty segments.
RECURSIVE SplitSlash(_, _)
SplitSlash(s, cur) ==
    IF s = <<>> THEN <<cur>>
    ELSE IF Head(s) = "/" THEN <<cur>> \o SplitSlash(Tail(s), <<>>)
         ELSE SplitSlash(Tail(s), Append(cur, Head(s)))

\* The number of "/" the string starts with.
RECURSIVE LeadingSlashes(_)
LeadingSlashes(s) ==
    IF s = <<>> \/ Head(s) # "/" THEN 0 ELSE 1 + LeadingSlashes(Tail(s))

\* pathlib's root: exactly two leading slashes are kept, any other number is one.
PathRoot(s) ==
    LET n == LeadingSlashes(s)
    IN  IF n = 0 THEN <<>> ELSE IF n = 2 THEN <<"/", "/">> ELSE <<"/">>

\* pathlib drops empty segments and "." segments.
PathParts(s) ==
    SelectSeq(SplitSlash(s, <<>>), LAMBDA seg : seg # <<>> /\ seg # <<".">>)

RECURSIVE JoinSlash(_)
JoinSlash(parts) ==
    IF parts = <<>> THEN <<>>
    ELSE IF Len(parts) = 1 THEN parts[1]
         ELSE parts[1] \o <<"/">> \o JoinSlash(Tail(parts))

\* A mutant of as_posix: the path text is passed through untouched.
as_posix_verbatim(s) == s

\* Path(s).as_posix()
as_posix(s) ==
    LET root == PathRoot(s)
        parts == PathParts(s)
    IN  IF root = <<>> /\ parts = <<>> THEN <<".">>
        ELSE root \o JoinSlash(parts)

(***************************************************************************)
(* normalize_git_path                                                      *)
(***************************************************************************)

\* A mutant: the prefix test is a bare string-prefix test, without the "/".
normalize_git_path_no_slash(lp, pfx) ==
    LET rel == as_posix(lp)
    IN  IF pfx = <<>> THEN Some(rel)
        ELSE IF rel = pfx THEN Some(<<>>)
        ELSE IF StartsWith(rel, pfx)
             THEN Some(SubSeq(rel, Len(pfx) + 2, Len(rel)))
             ELSE None

\* A mutant: the empty prefix is not special-cased.
normalize_git_path_no_empty_case(lp, pfx) ==
    LET rel == as_posix(lp)
        prefix == pfx \o <<"/">>
    IN  IF rel = pfx THEN Some(<<>>)
        ELSE IF StartsWith(rel, prefix)
             THEN Some(SubSeq(rel, Len(prefix) + 1, Len(rel)))
             ELSE None

normalize_git_path(lp, pfx) ==
    LET rel == as_posix(lp)
        prefix == pfx \o <<"/">>
    IN  IF pfx = <<>> THEN Some(rel)
        ELSE IF rel = pfx THEN Some(<<>>)
        ELSE IF StartsWith(rel, prefix)
             THEN Some(SubSeq(rel, Len(prefix) + 1, Len(rel)))
             ELSE None

(***************************************************************************)
(* The parts of the state a specification does not use stay at these       *)
(* values.                                                                 *)
(***************************************************************************)

NormIdle ==
    /\ log_path = <<>>
    /\ path_prefix_str = <<>>
    /\ norm_pc = "idle"
    /\ norm_result = None

LoadIdle ==
    /\ commit_file = <<>>
    /\ load_pc = "idle"
    /\ load_result = [raised |-> FALSE, line_number |-> 0, commits |-> {}]

ResolveIdle ==
    /\ commit_refs = {}
    /\ rev_parse = <<>>
    /\ resolve_pc = "idle"
    /\ resolved_commits = {}
    /\ resolved_again = {}

NoDescription ==
    [some |-> FALSE, commit_hash |-> <<>>, commit_date |-> <<>>, description |-> <<>>]

\* No command has completed yet.
NoCompletedProcess == [returncode |-> 0, stdout |-> <<>>]

\* The call did not run the single-file log query.
NoQuery == [ran |-> FALSE, raised |-> FALSE, result |-> NoCompletedProcess]

\* No is_commit_ancestor call has been made.
NoAncestorCall ==
    [called |-> FALSE, cache_key |-> <<>>, ran |-> FALSE, returncode |-> 0,
     raised |-> FALSE, is_ancestor |-> FALSE]

DescIdle ==
    /\ description_cache = <<>>
    /\ repo_is_git = FALSE
    /\ log_queries = <<>>
    /\ desc_calls = <<>>
    /\ first_result = <<>>
    /\ last_path = ""
    /\ last_result = NoDescription
    /\ last_query = NoQuery

AncIdle ==
    /\ ancestor_cache = <<>>
    /\ initial_ancestor_cache = <<>>
    /\ merge_base_runs = <<>>
    /\ ancestor_calls = <<>>
    /\ first_is_ancestor = <<>>
    /\ last_ancestor_call = NoAncestorCall

GitHistoryInfo(tracked, timestamps, added_never_modified) ==
    [is_git_repo |-> tracked, file_commit_timestamps |-> timestamps,
     added_never_modified_files |-> added_never_modified]

HistIdle ==
    /\ repo_commits = <<>>
    /\ repo_prefix = <<>>
    /\ hist_pc = "idle"
    /\ ignored_modification_commits = {}
    /\ resolved_ignored_modification_commits = {}
    /\ history_path_prefix = <<>>
    /\ file_commit_timestamps = <<>>
    /\ history_info = GitHistoryInfo(FALSE, <<>>, {})
    /\ vcs_calls = <<>>
    /\ work_tree_check = NoCompletedProcess
    /\ log_returncodes = <<>>

ScanIdle ==
    /\ scan_commits = <<>>
    /\ scan_prefix = <<>>
    /\ stray_lines = <<>>
    /\ scan_pc = "idle"
    /\ scan_returncode = 0
    /\ scan_resolved = {}
    /\ scanned_timestamps = <<>>
    /\ scanned_statuses = [all_added_files |-> {}, all_modified_files |-> {}]
    /\ recent_descriptions = <<>>

(***************************************************************************)
(* NormSpec: normalize_git_path applied to bounded inputs                  *)
(***************************************************************************)

MaxPathLen == 4

MaxPrefixLen == 2

PathAlphabet == {"a", "/", "."}

Lib == <<"l", "i", "b">>

LibCorePy == <<"l", "i", "b", "/", "c", "o", "r", "e", ".", "p", "y">>

DocsReadmeMd == <<"d", "o", "c", "s", "/", "r", "e", "a", "d", "m", "e", ".", "m", "d">>

LibfooX == <<"l", "i", "b", "f", "o", "o", "/", "x">>

LibSlashSlashX == <<"l", "i", "b", "/", "/", "x">>

DotLibX == <<".", "/", "l", "i", "b", "/", "x">>

Other == <<"o", "t", "h", "e", "r">>

OtherX == <<"o", "t", "h", "e", "r", "/", "x">>

OtherXY == <<"o", "t", "h", "e", "r", "/", "x", "/", "y">>

NamedPaths == {Lib, LibCorePy, DocsReadmeMd, LibfooX, LibSlashSlashX, DotLibX, OtherX}

NamedPrefixes == {Lib, Other, OtherX, OtherXY, <<"o", "t", "h">>}

LogPaths == StringsUpTo(PathAlphabet, MaxPathLen) \cup NamedPaths

Prefixes == StringsUpTo(PathAlphabet, MaxPrefixLen) \cup NamedPrefixes

NormInit ==
    /\ log_path \in LogPaths
    /\ path_prefix_str \in Prefixes
    /\ norm_pc = "call"
    /\ norm_result = None
    /\ LoadIdle
    /\ ResolveIdle
    /\ DescIdle
    /\ AncIdle
    /\ HistIdle
    /\ ScanIdle

NormCall ==
    /\ norm_pc = "call"
    /\ norm_result' = normalize_git_path(log_path, path_prefix_str)
    /\ norm_pc' = "returned"
    /\ UNCHANGED <<log_path, path_prefix_str, load_vars, resolve_vars, desc_vars, anc_vars, hist_vars, scan_vars>>

NormNext == NormCall

NormSpec == NormInit /\ [][NormNext]_vars

(***************************************************************************)
(* Claims about normalize_git_path                                         *)
(***************************************************************************)

\* s is already what pathlib would print for it: not empty, no trailing slash,
\* no doubled slash (other than exactly two leading ones), no "." segment.
IsNormalForm(s) ==
    \/ s \in {<<".">>, <<"/">>, <<"/", "/">>}
    \/ /\ s # <<>>
       /\ s[Len(s)] # "/"
       /\ \A i \in 1..(Len(s) - 1) :
            (s[i] = "/" /\ s[i + 1] = "/") => (i = 1 /\ s[3] # "/")
       /\ \A i \in 1..Len(s) :
            s[i] = "." =>
                ~ ( /\ (i = 1 \/ s[i - 1] = "/")
                    /\ (i = Len(s) \/ s[i + 1] = "/") )

\* The three cases of the prefix rule, read off a path text as it stands.
PrefixRule(p, pfx) ==
    IF p = pfx THEN Some(<<>>)
    ELSE IF StartsWith(p, pfx \o <<"/">>)
         THEN Some(SubSeq(p, Len(pfx) + 2, Len(p)))
         ELSE None

\* C6 (as claimed): for every non-empty prefix and every log path the result
\* is "" when the path equals the prefix, the remainder after "prefix/" when
\* the path starts with "prefix/", and None otherwise.
C6_Original ==
    (norm_pc = "returned" /\ path_prefix_str # <<>>)
        => norm_result = PrefixRule(log_path, path_prefix_str)

\* C6 (amended): the three cases hold for every non-empty prefix and every log
\* path that is in pathlib-normal form; a path that is not is normalised first,
\* so "lib//x" and "./lib/x" under prefix "lib" both give "x".
C6_PrefixRuleOnNormalPaths ==
    (norm_pc = "returned" /\ path_prefix_str # <<>>) =>
        /\ IsNormalForm(log_path)
            => norm_result = PrefixRule(log_path, path_prefix_str)
        /\ (path_prefix_str = Lib /\ log_path = LibfooX) => norm_result = None
        /\ (path_prefix_str = Lib /\ log_path = LibCorePy)
            => norm_result = Some(<<"c", "o", "r", "e", ".", "p", "y">>)
        /\ (path_prefix_str = Lib /\ log_path = DocsReadmeMd) => norm_result = None
        /\ (path_prefix_str = Lib /\ log_path \in {LibSlashSlashX, DotLibX})
            => norm_result = Some(<<"x">>)

C6_Witness ==
    /\ norm_pc = "returned"
    /\ path_prefix_str = Lib
    /\ log_path = LibfooX
    /\ norm_result = None

\* C7 (as claimed): normalize(p, "") = p for all p.
C7_Original ==
    (norm_pc = "returned" /\ path_prefix_str = <<>>)
        => norm_result = Some(log_path)

\* C7 (amended): with an empty prefix the result is never None; it is p itself
\* exactly when p is in pathlib-normal form, and otherwise the normal form of p
\* ("a/" gives "a", "a//a" gives "a/a", "./a" gives "a", "" gives ".").
C7_EmptyPrefixNormalises ==
    (norm_pc = "returned" /\ path_prefix_str = <<>>) =>
        /\ norm_result.some
        /\ IsNormalForm(norm_result.v)
        /\ IsNormalForm(log_path) <=> norm_result.v = log_path
        /\ log_path = <<"a", "/">> => norm_result.v = <<"a">>
        /\ log_path = <<"a", "/", "/", "a">> => norm_result.v = <<"a", "/", "a">>
        /\ log_path = <<".", "/", "a">> => norm_result.v = <<"a">>
        /\ log_path = <<>> => norm_result.v = <<".">>

C7_Witness ==
    /\ norm_pc = "returned"
    /\ path_prefix_str = <<>>
    /\ log_path = LibCorePy
    /\ norm_result = Some(LibCorePy)

\* C8 (as claimed): normalize("other/x", prefix) is None for every prefix
\* other than "other", the empty prefix included.
C8_Original ==
    (norm_pc = "returned" /\ log_path = OtherX /\ path_prefix_str # Other)
        => norm_result = None

\* C8 (amended): normalize("other/x", prefix) is None for every non-empty
\* prefix other than "other" and "other/x"; the empty prefix gives "other/x"
\* back and the prefix "other/x" gives "".
C8_OtherXOutOfScope ==
    (norm_pc = "returned" /\ log_path = OtherX) =>
        norm_result =
            CASE path_prefix_str = <<>> -> Some(OtherX)
              [] path_prefix_str = Other -> Some(<<"x">>)
              [] path_prefix_str = OtherX -> Some(<<>>)
              [] OTHER -> None

C8_Witness ==
    /\ norm_pc = "returned"
    /\ log_path = OtherX
    /\ path_prefix_str = <<"o", "t", "h">>
    /\ norm_result = None

(***************************************************************************)
(* load_commit_list                                                        *)
(***************************************************************************)

HasSpace(s) == \E i \in 1..Len(s) : IsSpace(s[i])

\* A line the loader skips, judged on the text given.
IsSkipped(line) ==
    \/ line = <<>>
    \/ StartsWith(line, <<"#">>)
    \/ StartsWith(line, <<"/", "/">>)

\* The loop of load_commit_list over the remaining lines: rest are the lines
\* not read yet (each without its line terminator, which strip() removes with
\* the other surrounding whitespace), line_number the number of the first of
\* them, commits the set built so far.  A ValueError ends the loop: no set is
\* returned, the error names line_number.
RECURSIVE load_commit_list_loop(_, _, _)
load_commit_list_loop(rest, line_number, commits) ==
    IF rest = <<>>
    THEN [raised |-> FALSE, line_number |-> 0, commits |-> commits]
    ELSE LET raw_line == Head(rest) \o <<"\n">>
             line == Strip(raw_line)
         IN  IF IsSkipped(line)
             THEN load_commit_list_loop(Tail(rest), line_number + 1, commits)
             ELSE IF HasSpace(line)
                  THEN [raised |-> TRUE, line_number |-> line_number, commits |-> {}]
                  ELSE load_commit_list_loop(Tail(rest), line_number + 1,
                                             commits \cup {Lower(line)})

\* A mutant: enumerate() without start=1.
load_commit_list_zero_based(file) == load_commit_list_loop(file, 0, {})

load_commit_list(file) == load_commit_list_loop(file, 1, {})

MaxLines == 3

Abc123Def456 == <<"a", "b", "c", "1", "2", "3", " ", "d", "e", "f", "4", "5", "6">>

CommitListLines ==
    { <<>>, <<" ">>, <<"#", "c">>, <<"#", " ", "c">>, <<"/", "/", "c">>,
      <<" ", "#", "c">>, <<"/", "a">>, <<"a", "b">>, <<"A", "B">>,
      <<" ", "a", "b", " ">>, <<"a", "\t", "b">>, Abc123Def456 }

LoadInit ==
    /\ commit_file \in UNION {[1..n -> CommitListLines] : n \in 0..MaxLines}
    /\ load_pc = "call"
    /\ load_result = [raised |-> FALSE, line_number |-> 0, commits |-> {}]
    /\ NormIdle
    /\ ResolveIdle
    /\ DescIdle
    /\ AncIdle
    /\ HistIdle
    /\ ScanIdle

LoadCall ==
    /\ load_pc = "call"
    /\ load_result' = load_commit_list(commit_file)
    /\ load_pc' = IF load_result'.raised THEN "raised" ELSE "returned"
    /\ UNCHANGED <<commit_file, norm_vars, resolve_vars, desc_vars, anc_vars, hist_vars, scan_vars>>

LoadNext == LoadCall

LoadSpec == LoadInit /\ [][LoadNext]_vars

\* The lines (by number) that are neither blank nor comments, and those among
\* them that hold whitespace, as read through a view of each line.
KeptLines(view(_)) ==
    {i \in 1..Len(commit_file) : ~ IsSkipped(view(commit_file[i]))}

BadLines(view(_)) ==
    {i \in KeptLines(view) : HasSpace(view(commit_file[i]))}

MinOf(S) == CHOOSE m \in S : \A n \in S : m <= n

\* What the claim says the loader does, when each line is read through view.
LoadRule(view(_)) ==
    IF BadLines(view) # {}
    THEN /\ load_pc = "raised"
         /\ load_result.raised
         /\ load_result.line_number = MinOf(BadLines(view))
         /\ load_result.commits = {}
    ELSE /\ load_pc = "returned"
         /\ ~ load_result.raised
         /\ load_result.commits =
                {Lower(view(commit_file[i])) : i \in KeptLines(view)}

AsWritten(line) == line

IsBlank(line) == \A i \in 1..Len(line) : IsSpace(line[i])

\* C10 (as claimed): blank lines and lines starting with "#" or "//" are
\* ignored; any other line with a whitespace character anywhere in it fails the
\* load, naming its 1-based number; otherwise the result is the set of the
\* remaining lines, lower-cased.  (A blank line is one of whitespace only.)
C10_Original ==
    load_pc # "call" =>
        LoadRule(LAMBDA line : IF IsBlank(line) THEN <<>> ELSE line)

\* C10 (amended): the same, with every line first stripped of its leading and
\* trailing whitespace: only whitespace inside the stripped text fails the
\* load, an indented comment is a comment, and the set holds stripped texts.
C10_LoadRuleOnStrippedLines == load_pc # "call" => LoadRule(Strip)

\* The scenario of the spec: "abc123 def456" on line 3, after a comment and a
\* blank line, fails the load naming line 3.
C10_Witness ==
    /\ load_pc = "raised"
    /\ commit_file = << <<"#", " ", "c">>, <<>>, Abc123Def456 >>
    /\ load_result.line_number = 3

(***************************************************************************)
(* resolve_commit_hashes                                                   *)
(***************************************************************************)

\* One iteration of the loop: what one ref adds to resolved_commits, given the
\* repository's answers to "rev-parse --verify <commit>^{commit}".
resolve_one(commit_ref, answers) ==
    LET commit == Lower(Strip(commit_ref))
    IN  IF commit = <<>> THEN {}
        ELSE LET resolved == answers[commit]
             IN  IF resolved.returncode = 0
                 THEN {Lower(Strip(resolved.stdout))}
                 ELSE {commit}

\* A mutant: no literal fallback for a ref that does not resolve.
resolve_commit_hashes_no_fallback(refs, answers) ==
    UNION { IF answers[Lower(Strip(r))].returncode = 0
            THEN resolve_one(r, answers) ELSE {} : r \in {x \in refs : Strip(x) # <<>>} }

resolve_commit_hashes(refs, answers) ==
    UNION {resolve_one(r, answers) : r \in refs}

MaxRefs == 2

HashAB == <<"a", "b", "1", "2">>

HashCD == <<"c", "d", "3", "4">>

\* Ref tokens a caller may pass: clean, upper-case, padded, blank.
RefTokens ==
    { <<>>, <<" ">>, <<"a", "b">>, <<"A", "B">>, <<" ", "a", "b">>,
      <<"c", "d">>, <<"T", "a", "g">> }

\* The tokens git can be asked about: those without whitespace.
GitTokens == {t \in RefTokens \cup {Lower(Strip(r)) : r \in RefTokens} :
                t # <<>> /\ ~ HasSpace(t)}

\* What "rev-parse --verify" can answer: failure, or a hash and a newline.
RevParseAnswers ==
    { [returncode |-> 128, stdout |-> <<>>] } \cup
    { [returncode |-> 0, stdout |-> h \o <<"\n">>] : h \in {HashAB, HashCD} }

ResolveInit ==
    /\ commit_refs \in {R \in SUBSET RefTokens : Cardinality(R) <= MaxRefs}
    /\ rev_parse \in [GitTokens -> RevParseAnswers]
    /\ resolve_pc = "call"
    /\ resolved_commits = {}
    /\ resolved_again = {}
    /\ NormIdle
    /\ LoadIdle
    /\ DescIdle
    /\ AncIdle
    /\ HistIdle
    /\ ScanIdle

ResolveCall ==
    /\ resolve_pc = "call"
    /\ resolved_commits' = resolve_commit_hashes(commit_refs, rev_parse)
    /\ resolve_pc' = "returned"
    /\ UNCHANGED <<commit_refs, rev_parse, resolved_again, norm_vars, load_vars, desc_vars, anc_vars, hist_vars, scan_vars>>

\* The same refs resolved once more against the same repository.
ResolveAgain ==
    /\ resolve_pc = "returned"
    /\ resolved_again' = resolve_commit_hashes(commit_refs, rev_parse)
    /\ resolve_pc' = "again"
    /\ UNCHANGED <<commit_refs, rev_parse, resolved_commits, norm_vars, load_vars, desc_vars, anc_vars, hist_vars, scan_vars>>

ResolveNext == ResolveCall \/ ResolveAgain

ResolveSpec == ResolveInit /\ [][ResolveNext]_vars

\* Whether git resolves the token t, and to what (lower-cased).
Resolves(t) == t \in DOMAIN rev_parse /\ rev_parse[t].returncode = 0

CanonicalHash(t) == Lower(Strip(rev_parse[t].stdout))

\* C9 (as claimed): the returned set holds, for each input ref, the lower-cased
\* canonical hash when the ref resolves and the lower-cased original token
\* when it does not, and nothing else.
C9_Original ==
    resolve_pc # "call" =>
        resolved_commits =
            { IF Resolves(r) THEN CanonicalHash(r) ELSE Lower(r) : r \in commit_refs }

\* C9 (amended): every call returns a set.  A ref that is blank once stripped
\* adds nothing; every other ref is stripped and lower-cased before git is
\* asked, and adds the canonical hash when that token resolves and that token
\* when it does not; the set holds nothing else, and resolving the same refs
\* again gives the same set.
C9_ResolveRule ==
    resolve_pc # "call" =>
        /\ \A r \in commit_refs :
             LET t == Lower(Strip(r))
             IN  /\ (~ IsBlank(r) /\ Resolves(t)) => CanonicalHash(t) \in resolved_commits
                 /\ (~ IsBlank(r) /\ ~ Resolves(t)) => t \in resolved_commits
        /\ \A e \in resolved_commits :
             \E r \in commit_refs :
                /\ ~ IsBlank(r)
                /\ e = IF Resolves(Lower(Strip(r)))
                       THEN CanonicalHash(Lower(Strip(r))) ELSE Lower(Strip(r))
        /\ \A e \in resolved_commits : e # <<>> /\ e = Lower(e) /\ e = Strip(e)
        /\ resolve_pc = "again" => resolved_again = resolved_commits

\* One ref resolves and one does not; the second is returned as a literal.
C9_Witness ==
    /\ resolve_pc = "again"
    /\ commit_refs = {<<"A", "B">>, <<"c", "d">>}
    /\ resolved_commits = {HashAB, <<"c", "d">>}

(***************************************************************************)
(* get_file_description and the description cache                          *)
(***************************************************************************)

\* A mutant: check=True is dropped, a failed command's result is used.
CalledProcessError_never(returncode, check) == FALSE

\* run_git_command: subprocess.run raises CalledProcessError when check is set
\* and the command exits non-zero.
CalledProcessError(returncode, check) == check /\ returncode # 0

FileCommitDescription(h, d, subj) ==
    [some |-> TRUE, commit_hash |-> h, commit_date |-> d, description |-> subj]

\* [line.strip() for line in stdout.splitlines() if line.strip()]
NonBlankLines(stdout) ==
    SelectSeq([i \in 1..Len(stdout) |-> Strip(stdout[i])], LAMBDA line : line # <<>>)

\* A mutant: two lines are enough, the subject is then empty.
parse_description_two_lines(result) ==
    IF result.returncode # 0 THEN NoDescription
    ELSE LET lines == NonBlankLines(result.stdout)
         IN  IF Len(lines) < 2 THEN NoDescription
             ELSE FileCommitDescription(lines[1], lines[2],
                                        IF Len(lines) < 3 THEN <<>> ELSE lines[3])

\* What get_file_description makes of the single-file log query's result.
parse_description(result) ==
    IF result.returncode # 0 THEN NoDescription
    ELSE LET lines == NonBlankLines(result.stdout)
         IN  IF Len(lines) < 3 THEN NoDescription
             ELSE FileCommitDescription(lines[1], lines[2], lines[3])

\* A mutant: a cached None is taken for an empty slot.
cache_hit_unless_none(cache, rel_path) ==
    rel_path \in DOMAIN cache /\ cache[rel_path].some

\* rel_path in repo.description_cache
cache_hit(cache, rel_path) == rel_path \in DOMAIN cache

MaxDescCalls == 3

DescPaths == {"a.txt", "b.txt"}

Hash1 == <<"a", "1">>

Hash2 == <<"b", "2">>

Date1 == <<"2", "0", "2", "4">>

Subject1 == <<"f", "i", "x">>

\* What the single-file log query can come back with: a failure, nothing,
\* two lines, a commit with an empty subject, a full triple, a triple after a
\* blank line and followed by an extra line.
LogResults ==
    { [returncode |-> 128, stdout |-> <<>>],
      [returncode |-> 0, stdout |-> <<>>],
      [returncode |-> 0, stdout |-> <<Hash1, Date1>>],
      [returncode |-> 0, stdout |-> <<Hash1, Date1, <<>>>>],
      [returncode |-> 0, stdout |-> <<Hash1, Date1, Subject1>>],
      [returncode |-> 0, stdout |-> <<<<" ">>, Hash2, Date1, Subject1, Hash1>>] }

\* A cache as build_repo_metadata or any other owner may have left it.
InitialCaches ==
    UNION { [D -> {NoDescription, FileCommitDescription(Hash2, Date1, Subject1)}] :
            D \in SUBSET DescPaths }

DescInit ==
    /\ description_cache \in InitialCaches
    /\ repo_is_git \in BOOLEAN
    /\ log_queries = [p \in DescPaths |-> 0]
    /\ desc_calls = [p \in DescPaths |-> 0]
    /\ first_result = [p \in DescPaths |-> NoDescription]
    /\ last_path = ""
    /\ last_result = NoDescription
    /\ last_query = NoQuery
    /\ NormIdle
    /\ LoadIdle
    /\ ResolveIdle
    /\ AncIdle
    /\ HistIdle
    /\ ScanIdle

\* The bookkeeping of one call that returned value for rel_path.
Returned(rel_path, value) ==
    /\ desc_calls' = [desc_calls EXCEPT ![rel_path] = @ + 1]
    /\ first_result' = IF desc_calls[rel_path] = 0
                       THEN [first_result EXCEPT ![rel_path] = value]
                       ELSE first_result
    /\ last_path' = rel_path
    /\ last_result' = value

\* There is a RepoMetadata to call on, and the model stops after MaxDescCalls
\* calls.
CallsLeft ==
    /\ desc_calls # <<>>
    /\ desc_calls["a.txt"] + desc_calls["b.txt"] < MaxDescCalls

\* get_file_description: the cache answers.
GetFileDescriptionHit(rel_path) ==
    /\ CallsLeft
    /\ cache_hit(description_cache, rel_path)
    /\ Returned(rel_path, description_cache[rel_path])
    /\ last_query' = NoQuery
    /\ UNCHANGED <<description_cache, repo_is_git, log_queries>>
    /\ UNCHANGED <<norm_vars, load_vars, resolve_vars, anc_vars, hist_vars, scan_vars>>

\* get_file_description: a miss on an untracked root caches None.
GetFileDescriptionUntracked(rel_path) ==
    /\ CallsLeft
    /\ ~ cache_hit(description_cache, rel_path)
    /\ ~ repo_is_git
    /\ description_cache' = (rel_path :> NoDescription) @@ description_cache
    /\ Returned(rel_path, NoDescription)
    /\ last_query' = NoQuery
    /\ UNCHANGED <<repo_is_git, log_queries>>
    /\ UNCHANGED <<norm_vars, load_vars, resolve_vars, anc_vars, hist_vars, scan_vars>>

\* get_file_description: a miss on a tracked root runs the log query
\* (check=False), and caches and returns what it makes of the result.
GetFileDescriptionQuery(rel_path, result) ==
    /\ CallsLeft
    /\ ~ cache_hit(description_cache, rel_path)
    /\ repo_is_git
    /\ log_queries' = [log_queries EXCEPT ![rel_path] = @ + 1]
    /\ IF CalledProcessError(result.returncode, FALSE)
       THEN /\ last_query' = [ran |-> TRUE, raised |-> TRUE, result |-> result]
            /\ desc_calls' = [desc_calls EXCEPT ![rel_path] = @ + 1]
            /\ last_path' = rel_path
            /\ UNCHANGED <<description_cache, first_result, last_result>>
       ELSE /\ last_query' = [ran |-> TRUE, raised |-> FALSE, result |-> result]
            /\ description_cache' =
                   (rel_path :> parse_description(result)) @@ description_cache
            /\ Returned(rel_path, parse_description(result))
    /\ UNCHANGED repo_is_git
    /\ UNCHANGED <<norm_vars, load_vars, resolve_vars, anc_vars, hist_vars, scan_vars>>

DescNext ==
    \/ \E rel_path \in DescPaths : GetFileDescriptionHit(rel_path)
    \/ \E rel_path \in DescPaths : GetFileDescriptionUntracked(rel_path)
    \/ \E rel_path \in DescPaths, result \in LogResults :
            GetFileDescriptionQuery(rel_path, result)

DescSpec == DescInit /\ [][DescNext]_vars

\* C5: over any sequence of get_file_description calls on one RepoMetadata, at
\* most one log query is issued per path, and every call for a path returns
\* what the first call for that path returned, None included.
C5_OneQueryPerPath ==
    /\ \A p \in DescPaths : log_queries[p] <= 1
    /\ last_path \in DescPaths => last_result = first_result[last_path]

\* A path whose one query failed is asked for again and answered None from the
\* cache.
C5_Witness ==
    /\ last_path = "a.txt"
    /\ desc_calls["a.txt"] >= 2
    /\ log_queries["a.txt"] = 1
    /\ last_result = NoDescription
    /\ description_cache["a.txt"] = NoDescription

(***************************************************************************)
(* is_commit_ancestor and the ancestor cache                               *)
(***************************************************************************)

MaxAncestorCalls == 3

\* The roots and refs the calls are made with.
AncestorRoots == { <<"/", "r">>, <<"/", "r", "/", "l">> }

AncestorRefs == {"main", "a1f"}

\* cache_key = (repo_root.as_posix(), ancestor_commit, descendant_commit)
cache_key(repo_root, ancestor_commit, descendant_commit) ==
    <<as_posix(repo_root), ancestor_commit, descendant_commit>>

AncestorKeys ==
    { cache_key(repo_root, a, d) : repo_root \in AncestorRoots, a \in AncestorRefs,
                                   d \in AncestorRefs }

\* A mutant: only a cached True counts as cached.
ancestor_cache_hit_if_true(cache, key) == key \in DOMAIN cache /\ cache[key]

\* cache_key in cache
ancestor_cache_hit(cache, key) == key \in DOMAIN cache

\* is_ancestor = result.returncode == 0
is_ancestor(returncode) == returncode = 0

\* merge-base --is-ancestor exits 0 (is an ancestor), 1 (is not) or 128 (a ref
\* does not resolve, or the root is not a repository).
MergeBaseReturncodes == {0, 1, 128}

\* A cache as its owner hands it over: empty, or with one entry.
InitialAncestorCaches ==
    {<<>>} \cup { (cache_key(<<"/", "r">>, "a1f", "main") :> b) : b \in BOOLEAN }

AncInit ==
    /\ ancestor_cache \in InitialAncestorCaches
    /\ initial_ancestor_cache = ancestor_cache
    /\ merge_base_runs = [key \in AncestorKeys |-> 0]
    /\ ancestor_calls = [key \in AncestorKeys |-> 0]
    /\ first_is_ancestor = [key \in AncestorKeys |-> FALSE]
    /\ last_ancestor_call = NoAncestorCall
    /\ NormIdle
    /\ LoadIdle
    /\ ResolveIdle
    /\ DescIdle
    /\ HistIdle
    /\ ScanIdle

\* The bookkeeping of one call that returned value for key.
AncestorReturned(key, value) ==
    /\ ancestor_calls' = [ancestor_calls EXCEPT ![key] = @ + 1]
    /\ first_is_ancestor' = IF ancestor_calls[key] = 0
                            THEN [first_is_ancestor EXCEPT ![key] = value]
                            ELSE first_is_ancestor

RECURSIVE CallsMade(_, _)
CallsMade(calls, keys) ==
    IF keys = {} THEN 0
    ELSE LET key == CHOOSE k \in keys : TRUE
         IN  calls[key] + CallsMade(calls, keys \ {key})

\* There is a cache to call with, and the model stops after MaxAncestorCalls
\* calls.
AncestorCallsLeft ==
    /\ ancestor_calls # <<>>
    /\ CallsMade(ancestor_calls, DOMAIN ancestor_calls) < MaxAncestorCalls

\* is_commit_ancestor: the cache answers.
IsCommitAncestorHit(repo_root, ancestor_commit, descendant_commit) ==
    LET key == cache_key(repo_root, ancestor_commit, descendant_commit)
    IN  /\ AncestorCallsLeft
        /\ ancestor_cache_hit(ancestor_cache, key)
        /\ AncestorReturned(key, ancestor_cache[key])
        /\ last_ancestor_call' =
               [called |-> TRUE, cache_key |-> key, ran |-> FALSE, returncode |-> 0,
                raised |-> FALSE, is_ancestor |-> ancestor_cache[key]]
        /\ UNCHANGED <<ancestor_cache, initial_ancestor_cache, merge_base_runs>>
        /\ UNCHANGED <<norm_vars, load_vars, resolve_vars, desc_vars, hist_vars, scan_vars>>

\* is_commit_ancestor: a miss runs merge-base --is-ancestor (check=False),
\* stores the boolean and returns it.
IsCommitAncestorRun(repo_root, ancestor_commit, descendant_commit, returncode) ==
    LET key == cache_key(repo_root, ancestor_commit, descendant_commit)
    IN  /\ AncestorCallsLeft
        /\ ~ ancestor_cache_hit(ancestor_cache, key)
        /\ merge_base_runs' = [merge_base_runs EXCEPT ![key] = @ + 1]
        /\ IF CalledProcessError(returncode, FALSE)
           THEN /\ last_ancestor_call' =
                       [called |-> TRUE, cache_key |-> key, ran |-> TRUE,
                        returncode |-> returncode, raised |-> TRUE, is_ancestor |-> FALSE]
                /\ ancestor_calls' = [ancestor_calls EXCEPT ![key] = @ + 1]
                /\ UNCHANGED <<ancestor_cache, first_is_ancestor>>
           ELSE /\ ancestor_cache' = (key :> is_ancestor(returncode)) @@ ancestor_cache
                /\ AncestorReturned(key, is_ancestor(returncode))
                /\ last_ancestor_call' =
                       [called |-> TRUE, cache_key |-> key, ran |-> TRUE,
                        returncode |-> returncode, raised |-> FALSE,
                        is_ancestor |-> is_ancestor(returncode)]
        /\ UNCHANGED initial_ancestor_cache
        /\ UNCHANGED <<norm_vars, load_vars, resolve_vars, desc_vars, hist_vars, scan_vars>>

AncNext ==
    \/ \E repo_root \in AncestorRoots, a \in AncestorRefs, d \in AncestorRefs :
            IsCommitAncestorHit(repo_root, a, d)
    \/ \E repo_root \in AncestorRoots, a \in AncestorRefs, d \in AncestorRefs,
          returncode \in MergeBaseReturncodes :
            IsCommitAncestorRun(repo_root, a, d, returncode)

AncSpec == AncInit /\ [][AncNext]_vars

\* The two best-effort lookups: a run of get_file_description calls on one
\* RepoMetadata, or a run of is_commit_ancestor calls on one cache.  The two
\* share no state.
EnrichInit == DescInit \/ AncInit

EnrichNext == DescNext \/ AncNext

EnrichSpec == EnrichInit /\ [][EnrichNext]_vars

\* The lines of a command's output that are not blank.
NonBlankCount(stdout) ==
    Cardinality({i \in 1..Len(stdout) : \E j \in 1..Len(stdout[i]) : ~ IsSpace(stdout[i][j])})

\* C13: no get_file_description or is_commit_ancestor call raises; a
\* single-file log query that exits non-zero or prints fewer than 3 non-blank
\* lines makes get_file_description return None, an ancestor check that exits
\* non-zero makes is_commit_ancestor return False, and the None or the False
\* is in the cache when the call returns.
C13_LookupsDegrade ==
    /\ ~ last_query.raised
    /\ (/\ last_query.ran
        /\ \/ last_query.result.returncode # 0
           \/ NonBlankCount(last_query.result.stdout) < 3) =>
            /\ last_result = NoDescription
            /\ last_path \in DOMAIN description_cache
            /\ description_cache[last_path] = NoDescription
    /\ ~ last_ancestor_call.raised
    /\ (last_ancestor_call.ran /\ last_ancestor_call.returncode # 0) =>
            /\ last_ancestor_call.is_ancestor = FALSE
            /\ last_ancestor_call.cache_key \in DOMAIN ancestor_cache
            /\ ancestor_cache[last_ancestor_call.cache_key] = FALSE

\* An ancestor check exited 128, a ref not resolving: the call returned False
\* and the cache holds False for the key.
C13_Witness ==
    /\ last_ancestor_call.ran
    /\ last_ancestor_call.returncode = 128
    /\ ~ last_ancestor_call.is_ancestor
    /\ last_ancestor_call.cache_key = <<<<"/", "r", "/", "l">>, "main", "a1f">>
    /\ last_ancestor_call.cache_key \in DOMAIN ancestor_cache
    /\ ancestor_cache[last_ancestor_call.cache_key] = FALSE

\* C14: over any sequence of is_commit_ancestor calls on one cache, the
\* ancestor check runs at most once per key (root, ancestor, descendant) and
\* never for a key the cache already held; a call returns what the cache then
\* holds for its key, which is what the first call for the key returned; and
\* no entry, the owner's included, is changed or removed.
C14_OneCheckPerKey ==
    /\ \A key \in DOMAIN merge_base_runs :
          /\ merge_base_runs[key] <= 1
          /\ merge_base_runs[key] = 1 => ancestor_calls[key] >= 1
          /\ key \in DOMAIN initial_ancestor_cache =>
                /\ merge_base_runs[key] = 0
                /\ key \in DOMAIN ancestor_cache
                /\ ancestor_cache[key] = initial_ancestor_cache[key]
          /\ ancestor_calls[key] >= 1 =>
                /\ key \in DOMAIN ancestor_cache
                /\ ancestor_cache[key] = first_is_ancestor[key]
    /\ last_ancestor_call.called =>
          /\ last_ancestor_call.is_ancestor = ancestor_cache[last_ancestor_call.cache_key]
          /\ last_ancestor_call.is_ancestor = first_is_ancestor[last_ancestor_call.cache_key]
          /\ last_ancestor_call.ran =>
                ancestor_calls[last_ancestor_call.cache_key] = 1

\* A key was checked once and stored False, another key was then checked and
\* stored True, and a second call for the first key was answered False from
\* the cache.
C14_Witness ==
    LET key == <<<<"/", "r">>, "main", "a1f">>
        other == <<<<"/", "r">>, "a1f", "main">>
    IN  /\ last_ancestor_call.called
        /\ last_ancestor_call.cache_key = key
        /\ ~ last_ancestor_call.ran
        /\ ~ last_ancestor_call.is_ancestor
        /\ ancestor_calls[key] = 2
        /\ merge_base_runs[key] = 1
        /\ merge_base_runs[other] = 1
        /\ ancestor_cache[other] = TRUE

(***************************************************************************)
(* The repository, and what git prints for it                              *)
(***************************************************************************)

MaxCommits == 2

\* The top-level-relative paths of the repository, in the order git lists them.
RepoPathOrder == << <<"d">>, <<"l", "/", "a">>, <<"l", "/", "b">> >>

RepoPaths == {RepoPathOrder[i] : i \in 1..Len(RepoPathOrder)}

\* %H and %ct of the first-parent commits, oldest first.  Committer times are
\* not in commit order.
CommitHashes == << <<"a", "1", "f">>, <<"b", "2", "e">>, <<"b", "3", "d">>, <<"c", "4", "c">> >>

CommitTimes == <<20, 10, 30, 25>>

\* What a commit does to each path: adds it, modifies it, or neither (it leaves
\* the path alone, or deletes or renames it, which --diff-filter=AM hides).
\* The path outside the subdirectory is only ever added.
ChangeKinds == {"A", "M", "-"}

CommitChanges == {ch \in [RepoPaths -> ChangeKinds] : ch[<<"d">>] # "M"}

Histories ==
    UNION { { [i \in 1..n |-> [hash |-> CommitHashes[i],
                               timestamp |-> CommitTimes[i],
                               changes |-> ch[i]]] :
              ch \in [1..n -> CommitChanges] } :
            n \in 0..MaxCommits }

\* The working root's path relative to the top level, as relative_to() and
\* as_posix() give it: "." for the top level itself.
RepoPrefixes == {<<".">>, <<"l">>}

\* A line of git's output, by what it is: a marker line ("__COMMIT__" and the
\* placeholder's value), a blank line, or a line of the commit's file list.
MarkerLine(hash, timestamp) ==
    [kind |-> "marker", hash |-> hash, timestamp |-> timestamp, status |-> "", path |-> <<>>]

BlankLine ==
    [kind |-> "blank", hash |-> <<>>, timestamp |-> 0, status |-> "", path |-> <<>>]

FileLine(status, path) ==
    [kind |-> "file", hash |-> <<>>, timestamp |-> 0, status |-> status, path |-> path]

RECURSIVE Flatten(_)
Flatten(seqs) == IF seqs = <<>> THEN <<>> ELSE Head(seqs) \o Flatten(Tail(seqs))

\* The paths a commit lists under --diff-filter=AM.
Listed(commit) == SelectSeq(RepoPathOrder, LAMBDA q : commit.changes[q] \in {"A", "M"})

\* One commit of "log --name-only --pretty=format:'__COMMIT__ %ct'": nothing
\* when the filter leaves the commit no file.
NameOnlyBlock(commit) ==
    IF Listed(commit) = <<>> THEN <<>>
    ELSE <<MarkerLine(<<>>, commit.timestamp)>>
         \o [i \in 1..Len(Listed(commit)) |-> FileLine("", Listed(commit)[i])]
         \o <<BlankLine>>

\* One commit of "log --name-status --pretty=format:'__COMMIT__ %H'".
NameStatusBlock(commit) ==
    IF Listed(commit) = <<>> THEN <<>>
    ELSE <<MarkerLine(commit.hash, 0)>>
         \o [i \in 1..Len(Listed(commit)) |->
                FileLine(commit.changes[Listed(commit)[i]], Listed(commit)[i])]
         \o <<BlankLine>>

\* log --first-parent --reverse --name-only ...: oldest commit first.
name_only_log(commits) ==
    Flatten([i \in 1..Len(commits) |-> NameOnlyBlock(commits[i])])

\* log --first-parent --name-status ...: newest commit first.
name_status_log(commits) ==
    Flatten([i \in 1..Len(commits) |-> NameStatusBlock(commits[Len(commits) + 1 - i])])

\* rev-parse --verify <token>^{commit}: the token resolves when it is the hash
\* of a commit, or an abbreviation (two characters at least) of exactly one.
git_verify(commits, token) ==
    LET matches == {i \in 1..Len(commits) : StartsWith(commits[i].hash, token)}
    IN  IF Len(token) >= 2 /\ Cardinality(matches) = 1
        THEN [returncode |-> 0,
              stdout |-> commits[CHOOSE i \in matches : TRUE].hash \o <<"\n">>]
        ELSE [returncode |-> 128, stdout |-> <<>>]

(***************************************************************************)
(* collect_git_history_info_with_ignored_modification_commits              *)
(***************************************************************************)

\* A mutant: the exit code alone decides.
is_git_repo_returncode_only(repo_check) == repo_check.returncode = 0

\* is_git_repo: rev-parse --is-inside-work-tree exits 0 and prints "true".
is_git_repo(repo_check) ==
    /\ repo_check.returncode = 0
    /\ Lower(Strip(repo_check.stdout)) = <<"t", "r", "u", "e">>

\* What rev-parse --is-inside-work-tree comes back with: a failure outside any
\* repository, "true" in a work tree, "false" inside the .git directory.
WorkTreeChecks ==
    { [returncode |-> 128, stdout |-> <<>>],
      [returncode |-> 0, stdout |-> <<"t", "r", "u", "e", "\n">>],
      [returncode |-> 0, stdout |-> <<"f", "a", "l", "s", "e", "\n">>] }

\* get_path_prefix: "" when the top level cannot be told or is the root itself.
get_path_prefix(toplevel_returncode, relative) ==
    IF toplevel_returncode # 0 THEN <<>>
    ELSE IF relative = <<".">> THEN <<>> ELSE relative

NoTimestamp == [some |-> FALSE, v |-> 0]

\* A mutant: the first timestamp seen for a path is kept.
RECURSIVE scan_timestamps_first_wins(_, _, _, _)
scan_timestamps_first_wins(lines, prefix, current_timestamp, timestamps) ==
    IF lines = <<>> THEN timestamps
    ELSE LET line == Head(lines)
             rest == Tail(lines)
             normalized_line == normalize_git_path(Strip(line.path), prefix)
         IN  IF line.kind = "blank"
             THEN scan_timestamps_first_wins(rest, prefix, current_timestamp, timestamps)
             ELSE IF line.kind = "marker"
             THEN scan_timestamps_first_wins(rest, prefix,
                                  [some |-> TRUE, v |-> line.timestamp], timestamps)
             ELSE IF ~ current_timestamp.some \/ ~ Truthy(normalized_line)
             THEN scan_timestamps_first_wins(rest, prefix, current_timestamp, timestamps)
             ELSE scan_timestamps_first_wins(rest, prefix, current_timestamp,
                      timestamps @@ (normalized_line.v :> current_timestamp.v))

\* A mutant: the greatest timestamp seen for a path is kept.
RECURSIVE scan_timestamps_greatest(_, _, _, _)
scan_timestamps_greatest(lines, prefix, current_timestamp, timestamps) ==
    IF lines = <<>> THEN timestamps
    ELSE LET line == Head(lines)
             rest == Tail(lines)
             normalized_line == normalize_git_path(Strip(line.path), prefix)
         IN  IF line.kind = "blank"
             THEN scan_timestamps_greatest(rest, prefix, current_timestamp, timestamps)
             ELSE IF line.kind = "marker"
             THEN scan_timestamps_greatest(rest, prefix,
                                  [some |-> TRUE, v |-> line.timestamp], timestamps)
             ELSE IF ~ current_timestamp.some \/ ~ Truthy(normalized_line)
             THEN scan_timestamps_greatest(rest, prefix, current_timestamp, timestamps)
             ELSE IF /\ normalized_line.v \in DOMAIN timestamps
                     /\ timestamps[normalized_line.v] > current_timestamp.v
             THEN scan_timestamps_greatest(rest, prefix, current_timestamp, timestamps)
             ELSE scan_timestamps_greatest(rest, prefix, current_timestamp,
                      (normalized_line.v :> current_timestamp.v) @@ timestamps)

\* The loop over the timestamp-per-file log: lines are the lines not read yet,
\* current_timestamp the last marker's value, timestamps the map built so far.
RECURSIVE scan_timestamps(_, _, _, _)
scan_timestamps(lines, prefix, current_timestamp, timestamps) ==
    IF lines = <<>> THEN timestamps
    ELSE LET line == Head(lines)
             rest == Tail(lines)
             normalized_line == normalize_git_path(Strip(line.path), prefix)
         IN  IF line.kind = "blank"
             THEN scan_timestamps(rest, prefix, current_timestamp, timestamps)
             ELSE IF line.kind = "marker"
             THEN scan_timestamps(rest, prefix,
                                  [some |-> TRUE, v |-> line.timestamp], timestamps)
             ELSE IF ~ current_timestamp.some \/ ~ Truthy(normalized_line)
             THEN scan_timestamps(rest, prefix, current_timestamp, timestamps)
             ELSE scan_timestamps(rest, prefix, current_timestamp,
                      (normalized_line.v :> current_timestamp.v) @@ timestamps)

\* A mutant: only a full, exact hash match ignores a commit.
commit_is_ignored_exact_only(current_commit_hash, resolved) ==
    LET normalized_commit_hash ==
            Lower(IF Truthy(current_commit_hash) THEN current_commit_hash.v ELSE <<>>)
    IN  \E ignored \in resolved : normalized_commit_hash = ignored

\* A mutant: the test is inverted.
commit_is_ignored_inverted(current_commit_hash, resolved) ==
    LET normalized_commit_hash ==
            Lower(IF Truthy(current_commit_hash) THEN current_commit_hash.v ELSE <<>>)
    IN  ~ \E ignored \in resolved :
            \/ normalized_commit_hash = ignored
            \/ StartsWith(normalized_commit_hash, ignored)

\* commit_is_ignored, for the commit whose marker was read last.
commit_is_ignored(current_commit_hash, resolved) ==
    LET normalized_commit_hash ==
            Lower(IF Truthy(current_commit_hash) THEN current_commit_hash.v ELSE <<>>)
    IN  \E ignored \in resolved :
            \/ normalized_commit_hash = ignored
            \/ StartsWith(normalized_commit_hash, ignored)

\* The loop over the status-per-file log: current_commit_hash is the last
\* marker's hash, sets the record of all_added_files and all_modified_files.
RECURSIVE scan_statuses(_, _, _, _, _)
scan_statuses(lines, prefix, resolved, current_commit_hash, sets) ==
    IF lines = <<>> THEN sets
    ELSE LET line == Head(lines)
             rest == Tail(lines)
             normalized_path == normalize_git_path(RStrip(line.path), prefix)
         IN  IF line.kind = "blank"
             THEN scan_statuses(rest, prefix, resolved, current_commit_hash, sets)
             ELSE IF line.kind = "marker"
             THEN scan_statuses(rest, prefix, resolved,
                                IF line.hash # <<>> THEN Some(line.hash) ELSE None, sets)
             ELSE IF ~ Truthy(normalized_path)
             THEN scan_statuses(rest, prefix, resolved, current_commit_hash, sets)
             ELSE IF line.status = "A"
             THEN scan_statuses(rest, prefix, resolved, current_commit_hash,
                      [sets EXCEPT !.all_added_files = @ \cup {normalized_path.v}])
             ELSE IF line.status = "M" /\ ~ commit_is_ignored(current_commit_hash, resolved)
             THEN scan_statuses(rest, prefix, resolved, current_commit_hash,
                      [sets EXCEPT !.all_modified_files = @ \cup {normalized_path.v}])
             ELSE scan_statuses(rest, prefix, resolved, current_commit_hash, sets)

\* all_added_files - all_modified_files, for one repository, prefix and set of
\* ignored refs.
added_never_modified(commits, prefix, answers, ignored_refs) ==
    LET sets == scan_statuses(name_status_log(commits), prefix,
                              resolve_commit_hashes(ignored_refs, answers), None,
                              [all_added_files |-> {}, all_modified_files |-> {}])
    IN  sets.all_added_files \ sets.all_modified_files

\* The refs a caller may ask to ignore: the second commit's hash in upper
\* case, and a token too short to resolve, kept as a hash prefix (of the first
\* commit's hash).
IgnoredRefPool == { <<"B", "2", "E">>, <<"a">> }

\* The repository's answers to the verify queries the resolver can make.
HistRevParse ==
    [t \in {Lower(Strip(r)) : r \in IgnoredRefPool} |-> git_verify(repo_commits, t)]

HistInit ==
    /\ repo_commits \in Histories
    /\ repo_prefix \in RepoPrefixes
    /\ hist_pc = "call"
    /\ ignored_modification_commits = {}
    /\ resolved_ignored_modification_commits = {}
    /\ history_path_prefix = <<>>
    /\ file_commit_timestamps = <<>>
    /\ history_info = GitHistoryInfo(FALSE, <<>>, {})
    /\ vcs_calls = <<>>
    /\ work_tree_check = NoCompletedProcess
    /\ log_returncodes = <<>>
    /\ NormIdle
    /\ LoadIdle
    /\ ResolveIdle
    /\ DescIdle
    /\ AncIdle
    /\ ScanIdle

\* verify queries: one per ref that is not blank
VerifyCalls(refs) ==
    [i \in 1..Cardinality({r \in refs : Strip(r) # <<>>}) |-> "rev-parse --verify"]

\* The call with some set of refs to ignore: is_git_repo, and on a tracked
\* root resolve_commit_hashes and get_path_prefix.  An untracked root returns
\* at once.
CollectCall ==
    /\ hist_pc = "call"
    /\ \E refs \in SUBSET IgnoredRefPool, repo_check \in WorkTreeChecks :
         /\ ignored_modification_commits' = refs
         /\ work_tree_check' = repo_check
         /\ IF is_git_repo(repo_check)
            THEN /\ resolved_ignored_modification_commits' =
                        resolve_commit_hashes(refs, HistRevParse)
                 /\ history_path_prefix' = get_path_prefix(0, repo_prefix)
                 /\ vcs_calls' = <<"rev-parse --is-inside-work-tree">>
                                    \o VerifyCalls(refs)
                                    \o <<"rev-parse --show-toplevel">>
                 /\ hist_pc' = "timestamps"
                 /\ UNCHANGED history_info
            ELSE /\ vcs_calls' = <<"rev-parse --is-inside-work-tree">>
                 /\ history_info' = GitHistoryInfo(FALSE, <<>>, {})
                 /\ hist_pc' = "returned"
                 /\ UNCHANGED <<resolved_ignored_modification_commits,
                                history_path_prefix>>
    /\ UNCHANGED <<repo_commits, repo_prefix, file_commit_timestamps, log_returncodes>>
    /\ UNCHANGED <<norm_vars, load_vars, resolve_vars, desc_vars, anc_vars, scan_vars>>

\* The timestamp-per-file query (check=True: a non-zero exit raises) and its scan.
CollectTimestamps ==
    /\ hist_pc = "timestamps"
    /\ vcs_calls' = Append(vcs_calls, "log --name-only")
    /\ \E returncode \in {0, 128} :
         /\ log_returncodes' = Append(log_returncodes, returncode)
         /\ IF CalledProcessError(returncode, TRUE)
            THEN hist_pc' = "raised" /\ UNCHANGED file_commit_timestamps
            ELSE /\ file_commit_timestamps' =
                       scan_timestamps(IF returncode = 0 THEN name_only_log(repo_commits)
                                                         ELSE <<>>,
                                       history_path_prefix, NoTimestamp, <<>>)
                 /\ hist_pc' = "statuses"
    /\ UNCHANGED <<repo_commits, repo_prefix, ignored_modification_commits,
                   resolved_ignored_modification_commits, history_path_prefix,
                   history_info, work_tree_check>>
    /\ UNCHANGED <<norm_vars, load_vars, resolve_vars, desc_vars, anc_vars, scan_vars>>

\* The status-per-file query (check=True), its scan, and the return.
CollectStatuses ==
    /\ hist_pc = "statuses"
    /\ vcs_calls' = Append(vcs_calls, "log --name-status")
    /\ \E returncode \in {0, 128} :
         /\ log_returncodes' = Append(log_returncodes, returncode)
         /\ IF CalledProcessError(returncode, TRUE)
            THEN hist_pc' = "raised" /\ UNCHANGED history_info
            ELSE /\ history_info' =
                       GitHistoryInfo(TRUE, file_commit_timestamps,
                           added_never_modified(IF returncode = 0 THEN repo_commits ELSE <<>>,
                                                history_path_prefix, HistRevParse,
                                                ignored_modification_commits))
                 /\ hist_pc' = "returned"
    /\ UNCHANGED <<repo_commits, repo_prefix, ignored_modification_commits,
                   resolved_ignored_modification_commits, history_path_prefix,
                   file_commit_timestamps, work_tree_check>>
    /\ UNCHANGED <<norm_vars, load_vars, resolve_vars, desc_vars, anc_vars, scan_vars>>

HistNext ==
    \/ CollectCall
    \/ CollectTimestamps
    \/ CollectStatuses

HistSpec == HistInit /\ [][HistNext]_vars

(***************************************************************************)
(* Claims about the history attribution engine, stated over the commits    *)
(* of the repository rather than over the lines git prints for them        *)
(***************************************************************************)

\* A call on a tracked root has returned its GitHistoryInfo.
HistoryReturned == hist_pc = "returned" /\ history_info.is_git_repo

InScope(q) == Truthy(normalize_git_path(q, history_path_prefix))

NameOf(q) == normalize_git_path(q, history_path_prefix).v

\* The commits (by position, 1 the oldest) that add or modify q.
Touching(q) == {i \in 1..Len(repo_commits) : repo_commits[i].changes[q] \in {"A", "M"}}

MaxOf(S) == CHOOSE m \in S : \A n \in S : n <= m

\* Commit i's lower-cased hash equals or starts with a resolved ignored token.
IsIgnoredCommit(i) ==
    \E ignored \in resolved_ignored_modification_commits :
        \/ Lower(repo_commits[i].hash) = ignored
        \/ StartsWith(Lower(repo_commits[i].hash), ignored)

\* The history of the spec's scenario: the first commit adds a and b (under
\* l/), the second modifies a.
ScenarioHistory ==
    << [hash |-> CommitHashes[1], timestamp |-> CommitTimes[1],
        changes |-> (<<"d">> :> "-") @@ (<<"l", "/", "a">> :> "A") @@ (<<"l", "/", "b">> :> "A")],
       [hash |-> CommitHashes[2], timestamp |-> CommitTimes[2],
        changes |-> (<<"d">> :> "-") @@ (<<"l", "/", "a">> :> "M") @@ (<<"l", "/", "b">> :> "-")] >>

InScenario == repo_commits = ScenarioHistory /\ repo_prefix = <<"l">>

\* C1: added_never_modified_files is exactly the set of in-scope paths that
\* some commit adds and no commit that is not ignored modifies, a commit being
\* ignored iff its lower-cased hash equals or starts with a member of the
\* resolved ignored set; in the scenario it is {b} with nothing ignored and
\* {a, b} with the second commit ignored.
C1_AddedNeverModified ==
    HistoryReturned =>
        /\ history_info.added_never_modified_files =
             { NameOf(q) : q \in
                 { q \in RepoPaths :
                     /\ InScope(q)
                     /\ \E i \in Touching(q) : repo_commits[i].changes[q] = "A"
                     /\ ~ \E i \in Touching(q) :
                            repo_commits[i].changes[q] = "M" /\ ~ IsIgnoredCommit(i) } }
        /\ (InScenario /\ ignored_modification_commits = {})
             => history_info.added_never_modified_files = {<<"b">>}
        /\ (InScenario /\ ignored_modification_commits = {<<"B", "2", "E">>})
             => history_info.added_never_modified_files = {<<"a">>, <<"b">>}

C1_Witness ==
    /\ HistoryReturned
    /\ InScenario
    /\ ignored_modification_commits = {<<"B", "2", "E">>}
    /\ history_info.added_never_modified_files = {<<"a">>, <<"b">>}

\* C2: for the history at hand, the result for a smaller set of ignored refs
\* is a subset of the result for a larger one: the returned set lies between
\* the results for every subset and every superset of the refs it was given.
C2_IgnoringIsMonotone ==
    HistoryReturned =>
        \A other \in SUBSET IgnoredRefPool :
            LET result == added_never_modified(repo_commits, history_path_prefix,
                                               HistRevParse, other)
            IN  /\ other \subseteq ignored_modification_commits
                    => result \subseteq history_info.added_never_modified_files
                /\ ignored_modification_commits \subseteq other
                    => history_info.added_never_modified_files \subseteq result

\* Ignoring one more commit added a file to the result.
C2_Witness ==
    /\ HistoryReturned
    /\ ignored_modification_commits = IgnoredRefPool
    /\ \E smaller \in SUBSET IgnoredRefPool :
          /\ smaller # IgnoredRefPool
          /\ added_never_modified(repo_commits, history_path_prefix, HistRevParse, smaller)
                # history_info.added_never_modified_files

\* The timestamps map holds, for exactly the in-scope paths some commit lists,
\* the timestamp of the last commit in history order that lists the path.
LastListingWins(timestamps) ==
    /\ DOMAIN timestamps = {NameOf(q) : q \in {q \in RepoPaths : InScope(q) /\ Touching(q) # {}}}
    /\ \A q \in RepoPaths :
         (InScope(q) /\ Touching(q) # {})
            => timestamps[NameOf(q)] = repo_commits[MaxOf(Touching(q))].timestamp

\* C3: after the scan of the oldest-first log, file_commit_timestamps[p] is the
\* timestamp of the last commit of the stream that lists p, for every p in it.
C3_LastCommitInStreamWins ==
    hist_pc = "statuses" => LastListingWins(file_commit_timestamps)

\* Two commits list a; the later one's timestamp, the smaller of the two, is kept.
C3_Witness ==
    /\ hist_pc = "statuses"
    /\ history_path_prefix = <<"l">>
    /\ Touching(<<"l", "/", "a">>) = {1, 2}
    /\ file_commit_timestamps[<<"a">>] = CommitTimes[2]
    /\ CommitTimes[2] < CommitTimes[1]

\* C4 (as claimed): the returned file_commit_timestamps[p] is the timestamp of
\* the most recent commit touching p that is not ignored.
C4_Original ==
    HistoryReturned =>
        \A q \in RepoPaths :
            LET kept == {i \in Touching(q) : ~ IsIgnoredCommit(i)}
            IN  (InScope(q) /\ kept # {}) =>
                    /\ NameOf(q) \in DOMAIN history_info.file_commit_timestamps
                    /\ history_info.file_commit_timestamps[NameOf(q)]
                         = repo_commits[MaxOf(kept)].timestamp

\* C4 (amended): the returned file_commit_timestamps[p] is the timestamp of
\* the most recent commit touching p, ignored or not: the ignored set decides
\* added_never_modified_files only, and a path touched only by ignored commits
\* still has its timestamp.
C4_IgnoredCommitsStillTimestamp ==
    HistoryReturned =>
        /\ \A q \in RepoPaths :
             (InScope(q) /\ Touching(q) # {}) =>
                /\ NameOf(q) \in DOMAIN history_info.file_commit_timestamps
                /\ \A i \in Touching(q) :
                     (\A j \in Touching(q) : j <= i) =>
                        history_info.file_commit_timestamps[NameOf(q)]
                            = repo_commits[i].timestamp
        /\ \A p \in DOMAIN history_info.file_commit_timestamps :
             \E q \in RepoPaths : InScope(q) /\ NameOf(q) = p /\ Touching(q) # {}

\* The last commit touching a is ignored, an earlier one is not, and the
\* ignored commit's timestamp is the one returned.
C4_Witness ==
    /\ HistoryReturned
    /\ InScenario
    /\ IsIgnoredCommit(2) /\ ~ IsIgnoredCommit(1)
    /\ history_info.file_commit_timestamps[<<"a">>] = CommitTimes[2]

(***************************************************************************)
(* Claims about the calls the history attribution engine makes             *)
(***************************************************************************)

\* The is-inside-work-tree check did not say "true".
RootUntracked ==
    \/ work_tree_check.returncode # 0
    \/ Strip(work_tree_check.stdout) # <<"t", "r", "u", "e">>

\* C11: on a root that is not tracked, the call has returned
\* (false, no timestamps, no added-never-modified file) and has run the
\* is-inside-work-tree check and nothing else: no verify query, no prefix
\* query, no log query, whatever refs it was given to ignore.
C11_UntrackedReturnsAtOnce ==
    (hist_pc # "call" /\ RootUntracked) =>
        /\ hist_pc = "returned"
        /\ history_info = GitHistoryInfo(FALSE, <<>>, {})
        /\ vcs_calls = <<"rev-parse --is-inside-work-tree">>
        /\ log_returncodes = <<>>
        /\ resolved_ignored_modification_commits = {}

\* The check exits 0 and prints "false", two refs were to be ignored, and the
\* call returned after the one command.
C11_Witness ==
    /\ hist_pc = "returned"
    /\ work_tree_check = [returncode |-> 0, stdout |-> <<"f", "a", "l", "s", "e", "\n">>]
    /\ ignored_modification_commits = IgnoredRefPool
    /\ Len(repo_commits) = 2
    /\ ~ history_info.is_git_repo
    /\ Len(vcs_calls) = 1

\* C12: on a tracked root, a log query that exits non-zero ends the call in
\* a raised error with no GitHistoryInfo returned, and a GitHistoryInfo is
\* returned only after both log queries exited 0.
C12_LogFailurePropagates ==
    /\ (\E i \in DOMAIN log_returncodes : log_returncodes[i] # 0) =>
            /\ hist_pc = "raised"
            /\ history_info = GitHistoryInfo(FALSE, <<>>, {})
    /\ HistoryReturned => log_returncodes = <<0, 0>>
    /\ hist_pc = "raised" =>
            /\ log_returncodes \in {<<128>>, <<0, 128>>}
            /\ Len(vcs_calls) >= 3

\* The timestamp query succeeded and filled the map, the status query failed,
\* and the call raised.
C12_Witness ==
    /\ hist_pc = "raised"
    /\ log_returncodes = <<0, 128>>
    /\ file_commit_timestamps # <<>>
    /\ history_info = GitHistoryInfo(FALSE, <<>>, {})

(***************************************************************************)
(* The log stream parser: the three scans, each on one stream              *)
(***************************************************************************)

\* A line of text that is no marker: a hash, a date, a subject or a path.
TextLine(text) == FileLine("", text)

\* %ad and %s of the first-parent commits, oldest first.
CommitDates ==
    << <<"2", "0", "2", "1">>, <<"2", "0", "2", "2">>, <<"2", "0", "2", "3">>,
       <<"2", "0", "2", "4">> >>

CommitSubjects ==
    << <<"a", "d", "d">>, <<"f", "i", "x">>, <<"t", "i", "d", "y">>, <<"d", "o", "c">> >>

\* The histories the scans are run on: each commit lists some of the paths,
\* the first listing of a path being its addition and a later one a
\* modification, and has its subject or an empty one.
ScanHistory(listed, subjects) ==
    [i \in 1..Len(listed) |->
        [hash |-> CommitHashes[i], timestamp |-> CommitTimes[i],
         date |-> CommitDates[i], subject |-> subjects[i],
         changes |-> [q \in RepoPaths |->
                        IF q \notin listed[i] THEN "-"
                        ELSE IF \E j \in 1..(i - 1) : q \in listed[j] THEN "M"
                        ELSE "A"]]]

ScanHistories ==
    UNION { { ScanHistory(listed, subjects) :
              listed \in [1..n -> SUBSET RepoPaths],
              subjects \in { f \in [1..n -> {<<>>} \cup {CommitSubjects[i] : i \in 1..n}] :
                             \A i \in 1..n : f[i] \in {<<>>, CommitSubjects[i]} } } :
            n \in 0..MaxCommits }

\* One commit of "log --name-only --pretty=format:__COMMIT__%n%H%n%ad%n%s":
\* the marker, the hash, the date and the subject on a line each (an empty
\* subject is an empty line), then the commit's files and an empty line.
DescriptionBlock(commit) ==
    IF Listed(commit) = <<>> THEN <<>>
    ELSE <<MarkerLine(<<>>, 0), TextLine(commit.hash), TextLine(commit.date),
           IF commit.subject = <<>> THEN BlankLine ELSE TextLine(commit.subject)>>
         \o [i \in 1..Len(Listed(commit)) |-> TextLine(Listed(commit)[i])]
         \o <<BlankLine>>

\* log --first-parent --reverse --name-only ...: oldest commit first.
description_log(commits) ==
    Flatten([i \in 1..Len(commits) |-> DescriptionBlock(commits[i])])

\* current_commit_hash, current_commit_date and current_commit_subject, all
\* None.
NoCurrentCommit == [commit_hash |-> None, commit_date |-> None, commit_subject |-> None]

\* The loop over the description log: current is the commit being read.
RECURSIVE scan_descriptions(_, _, _, _)
scan_descriptions(lines, prefix, current, descriptions) ==
    IF lines = <<>> THEN descriptions
    ELSE LET raw == Head(lines)
             rest == Tail(lines)
             line == Strip(raw.path)
             normalized_path == normalize_git_path(line, prefix)
         IN  IF raw.kind = "blank" \/ (raw.kind = "file" /\ line = <<>>)
             THEN scan_descriptions(rest, prefix, current, descriptions)
             ELSE IF raw.kind = "marker"
             THEN scan_descriptions(rest, prefix, NoCurrentCommit, descriptions)
             ELSE IF ~ current.commit_hash.some
             THEN scan_descriptions(rest, prefix,
                      [current EXCEPT !.commit_hash = Some(line)], descriptions)
             ELSE IF ~ current.commit_date.some
             THEN scan_descriptions(rest, prefix,
                      [current EXCEPT !.commit_date = Some(line)], descriptions)
             ELSE IF ~ current.commit_subject.some
             THEN scan_descriptions(rest, prefix,
                      [current EXCEPT !.commit_subject = Some(line)], descriptions)
             ELSE IF ~ Truthy(normalized_path)
             THEN scan_descriptions(rest, prefix, current, descriptions)
             ELSE scan_descriptions(rest, prefix, current,
                      (normalized_path.v :>
                          FileCommitDescription(current.commit_hash.v, current.commit_date.v,
                                                current.commit_subject.v))
                      @@ descriptions)

\* collect_recent_file_descriptions: {} when the log query fails (check=False).
collect_recent_file_descriptions(path_prefix, result) ==
    IF result.returncode # 0 THEN <<>>
    ELSE scan_descriptions(result.stdout, path_prefix, NoCurrentCommit, <<>>)

MaxStray == 4

\* Lines of a file list with no commit before them, as a truncated or damaged
\* stream may start with.
StrayLines == { FileLine("A", <<"l", "/", "a">>), FileLine("M", <<"l", "/", "b">>) }

StrayStreams == UNION { [1..n -> StrayLines] : n \in 0..MaxStray }

\* The same lines as --name-only prints them.
NameOnly(lines) == [i \in 1..Len(lines) |-> TextLine(lines[i].path)]

\* The resolved sets of ignored commits the status scan is run with.
ScanResolved == { {}, {<<"b", "2", "e">>} }

ScanInit ==
    /\ scan_commits \in ScanHistories
    /\ scan_prefix \in RepoPrefixes
    /\ stray_lines \in StrayStreams
    /\ scan_pc = "call"
    /\ scan_returncode = 0
    /\ scan_resolved = {}
    /\ scanned_timestamps = <<>>
    /\ scanned_statuses = [all_added_files |-> {}, all_modified_files |-> {}]
    /\ recent_descriptions = <<>>
    /\ NormIdle
    /\ LoadIdle
    /\ ResolveIdle
    /\ DescIdle
    /\ AncIdle
    /\ HistIdle

\* The timestamp-per-file scan of the stream.
ScanTimestamps ==
    /\ scan_pc = "call"
    /\ scan_pc' = "timestamps"
    /\ scanned_timestamps' =
          scan_timestamps(NameOnly(stray_lines) \o name_only_log(scan_commits),
                          get_path_prefix(0, scan_prefix), NoTimestamp, <<>>)
    /\ UNCHANGED <<scan_commits, scan_prefix, stray_lines, scan_returncode, scan_resolved,
                   scanned_statuses, recent_descriptions>>
    /\ UNCHANGED <<norm_vars, load_vars, resolve_vars, desc_vars, anc_vars, hist_vars>>

\* The status-per-file scan of the stream, for some resolved set of ignored
\* commits.
ScanStatuses ==
    /\ scan_pc = "call"
    /\ scan_pc' = "statuses"
    /\ \E resolved \in ScanResolved :
         /\ scan_resolved' = resolved
         /\ scanned_statuses' =
               scan_statuses(stray_lines \o name_status_log(scan_commits),
                             get_path_prefix(0, scan_prefix), resolved, None,
                             [all_added_files |-> {}, all_modified_files |-> {}])
    /\ UNCHANGED <<scan_commits, scan_prefix, stray_lines, scan_returncode,
                   scanned_timestamps, recent_descriptions>>
    /\ UNCHANGED <<norm_vars, load_vars, resolve_vars, desc_vars, anc_vars, hist_vars>>

\* collect_recent_file_descriptions: the prefix, the log query and the scan.
CollectRecentFileDescriptions ==
    /\ scan_pc = "call"
    /\ scan_pc' = "descriptions"
    /\ \E returncode \in {0, 128} :
         /\ scan_returncode' = returncode
         /\ recent_descriptions' =
               collect_recent_file_descriptions(
                   get_path_prefix(0, scan_prefix),
                   [returncode |-> returncode,
                    stdout |-> IF returncode = 0
                               THEN NameOnly(stray_lines) \o description_log(scan_commits)
                               ELSE <<>>])
    /\ UNCHANGED <<scan_commits, scan_prefix, stray_lines, scan_resolved,
                   scanned_timestamps, scanned_statuses>>
    /\ UNCHANGED <<norm_vars, load_vars, resolve_vars, desc_vars, anc_vars, hist_vars>>

ScanNext ==
    \/ ScanTimestamps
    \/ ScanStatuses
    \/ CollectRecentFileDescriptions

ScanSpec == ScanInit /\ [][ScanNext]_vars

(***************************************************************************)
(* Claims about the log stream parser                                      *)
(***************************************************************************)

ScanPrefix == get_path_prefix(0, scan_prefix)

\* C15: in each of the three modes, the path lines that come before the first
\* marker are discarded: the scan of the stream gives what the scan of the
\* stream without them gives, so they add no timestamp, no added file, no
\* modified file and no description, and change nothing later lines record.
C15_StrayPathLinesDiscarded ==
    /\ scan_pc = "timestamps" =>
          scanned_timestamps =
              scan_timestamps(name_only_log(scan_commits), ScanPrefix, NoTimestamp, <<>>)
    /\ scan_pc = "statuses" =>
          scanned_statuses =
              scan_statuses(name_status_log(scan_commits), ScanPrefix, scan_resolved, None,
                            [all_added_files |-> {}, all_modified_files |-> {}])
    /\ (scan_pc = "descriptions" /\ scan_returncode = 0) =>
          recent_descriptions =
              scan_descriptions(description_log(scan_commits), ScanPrefix,
                                NoCurrentCommit, <<>>)

\* The commits (by position, 1 the oldest) of the scanned history that list q.
ScanListing(q) ==
    {i \in 1..Len(scan_commits) : scan_commits[i].changes[q] \in {"A", "M"}}

\* The in-scope paths some commit of the scanned history lists.
DescribedPaths ==
    {q \in RepoPaths : Truthy(normalize_git_path(q, ScanPrefix)) /\ ScanListing(q) # {}}

\* C16: for a stream of commit blocks (marker, hash, date, subject, the
\* commit's paths), oldest first, with subjects that may be empty,
\* collect_recent_file_descriptions maps exactly the in-scope paths some
\* commit lists, each to the (hash, date, subject) of the last commit that
\* lists it.
C16_LastListingCommitDescribes ==
    (scan_pc = "descriptions" /\ scan_returncode = 0 /\ stray_lines = <<>>) =>
        /\ DOMAIN recent_descriptions =
              {normalize_git_path(q, ScanPrefix).v : q \in DescribedPaths}
        /\ \A q \in DescribedPaths :
              LET last == scan_commits[MaxOf(ScanListing(q))]
              IN  recent_descriptions[normalize_git_path(q, ScanPrefix).v] =
                      FileCommitDescription(last.hash, last.date, last.subject)

====
